---- MODULE Spec2Model ----
(***************************************************************************)
(* kingdom_chess: board, move interpreter, king-safety oracle and Game     *)
(* session, modelled from src/kingdom_chess/__init__.py.                   *)
(***************************************************************************)
EXTENDS Integers, Sequences, FiniteSets, TLC

VARIABLES
    board,             \* Game._board: the 8x8 grid, Position -> Piece | None
    moving_color,      \* Game._moving_color
    enemy_color,       \* Game._enemy_color
    enemy_king_state,  \* Game._enemy_king_state
    call,              \* arguments of the call whose result the caller holds
    ret,               \* value returned by that call
    moves              \* number of moves committed so far

vars == <<board, moving_color, enemy_color, enemy_king_state, call, ret, moves>>

----------------------------------------------------------------------------
\* Layout

BOARD_SIDE_LEN == 8

Coords == 0 .. (BOARD_SIDE_LEN - 1)

\* Every valid Position (the dataclass instances that __post_init__ accepts).
Positions == [x : Coords, y : Coords]

\* Position(x, y): the constructor; __post_init__ raises ValueError outside the grid.
\* Position that brings a coordinate outside the grid back to its edge.
Position_clamped(x, y) ==
    LET clamp(n) == IF n < 0 THEN 0 ELSE IF n >= BOARD_SIDE_LEN THEN BOARD_SIDE_LEN - 1 ELSE n
    IN  [x |-> clamp(x), y |-> clamp(y)]

Position(x, y) ==
    IF x \in Coords /\ y \in Coords
    THEN [x |-> x, y |-> y]
    ELSE [error |-> "ValueError", x |-> x, y |-> y]

IsPosition(p) == "error" \notin DOMAIN p

abs(n) == IF n < 0 THEN -n ELSE n

\* _compare with the two signs exchanged.
_compare_reversed(x, y) == IF x = y THEN 0 ELSE IF x < y THEN -1 ELSE 1

_compare(x, y) == IF x = y THEN 0 ELSE IF x < y THEN 1 ELSE -1

\* The assert of Position.direction_to, evaluated with Python's short-circuit `or`.
direction_to_assert(self, destination) ==
    LET dx == destination.x - self.x
    IN  \/ dx # 0
        \/ LET dy == destination.y - self.y
           IN  dy # 0 \/ abs(dx) = abs(dy)

direction_to(self, destination) ==
    IF direction_to_assert(self, destination)
    THEN [dx |-> _compare(self.x, destination.x), dy |-> _compare(self.y, destination.y)]
    ELSE [error |-> "AssertionError"]

shift(self, dx, dy) == Position(self.x + dx, self.y + dy)

FILES == <<"a", "b", "c", "d", "e", "f", "g", "h">>

\* The rank labels in ascending order.
RANKS_ascending == <<"1", "2", "3", "4", "5", "6", "7", "8">>

RANKS == <<"8", "7", "6", "5", "4", "3", "2", "1">>

\* str.find for a one-character needle: the first index, from 0, or -1.
find(str, ch) ==
    IF \E i \in DOMAIN str : str[i] = ch
    THEN (CHOOSE i \in DOMAIN str : str[i] = ch /\ \A j \in 1 .. (i - 1) : str[j] # ch) - 1
    ELSE -1

\* Position.from_coordinate; `coord` is the sequence of the characters of the label.
from_coordinate(coord) ==
    IF Len(coord) # 2
    THEN [error |-> "ValueError", coord |-> coord]
    ELSE LET file == find(FILES, coord[1])
             rank == find(RANKS, coord[2])
         IN  IF file = -1 \/ rank = -1
             THEN [error |-> "ValueError", coord |-> coord]
             ELSE Position(file, rank)

----------------------------------------------------------------------------
\* Pieces

KING == "KING"
QUEEN == "QUEEN"
ROOK == "ROOK"
BISHOP == "BISHOP"
KNIGHT == "KNIGHT"
PAWN == "PAWN"

PieceType == {KING, QUEEN, ROOK, BISHOP, KNIGHT, PAWN}

PromotionTarget == {QUEEN, ROOK, BISHOP, KNIGHT}

WHITE == "white"
BLACK == "black"

Color == {WHITE, BLACK}

opposite(color) == IF color = WHITE THEN BLACK ELSE WHITE

Piece(typ, color) == [typ |-> typ, color |-> color]

\* Python's None in a board cell or in a Move field.
None == [typ |-> "None", color |-> "None"]

\* Python's None passed as promotion_to.
NoTarget == "None"

----------------------------------------------------------------------------
\* Board

\* Board.__init__: _grid[y][x], every cell None (sequences are 1-based).
EmptyBoard == [y \in 1 .. BOARD_SIDE_LEN |-> [x \in 1 .. BOARD_SIDE_LEN |-> None]]

\* Board.__getitem__
get(b, pos) == b[pos.y + 1][pos.x + 1]

\* Board.__setitem__
set(b, pos, piece) == [b EXCEPT ![pos.y + 1][pos.x + 1] = piece]

\* Board.from_mapping on a set of <<x, y, typ, color>> placements.
from_mapping(mapping) ==
    [y \in 1 .. BOARD_SIDE_LEN |-> [x \in 1 .. BOARD_SIDE_LEN |->
        IF \E e \in mapping : e[1] = x - 1 /\ e[2] = y - 1
        THEN LET e == CHOOSE e \in mapping : e[1] = x - 1 /\ e[2] = y - 1
             IN  Piece(e[3], e[4])
        ELSE None]]

\* Iteration order of Board.to_mapping(): rows y = 0..7, inside a row x = 0..7.
RowMajor ==
    [k \in 1 .. (BOARD_SIDE_LEN * BOARD_SIDE_LEN) |->
        Position((k - 1) % BOARD_SIDE_LEN, (k - 1) \div BOARD_SIDE_LEN)]

\* Keys of Board.to_mapping(), in iteration order.
to_mapping(b) == SelectSeq(RowMajor, LAMBDA p : get(b, p) # None)

STARTING_BOARD_STATE ==
    LET back == <<ROOK, KNIGHT, BISHOP, QUEEN, KING, BISHOP, KNIGHT, ROOK>>
    IN  [y \in 1 .. BOARD_SIDE_LEN |-> [x \in 1 .. BOARD_SIDE_LEN |->
            CASE y - 1 = 0 -> Piece(back[x], BLACK)
              [] y - 1 = 1 -> Piece(PAWN, BLACK)
              [] y - 1 = 6 -> Piece(PAWN, WHITE)
              [] y - 1 = 7 -> Piece(back[x], WHITE)
              [] OTHER -> None]]

initialy_filled == STARTING_BOARD_STATE

----------------------------------------------------------------------------
\* Move

SAFE == "SAFE"
CHECK == "CHECK"
CHECKMATE == "CHECKMATE"

KingState == {SAFE, CHECK, CHECKMATE}

Move(departure, destination, moving_piece, captured_piece, promotion_to) ==
    [departure |-> departure,
     destination |-> destination,
     moving_piece |-> moving_piece,
     captured_piece |-> captured_piece,
     promotion_to |-> promotion_to]

\* MoveError = str
MoveError(msg) == [error |-> msg]

IsMove(r) == "departure" \in DOMAIN r

IsMoveError(r) == "error" \in DOMAIN r

\* do_move that puts the moving piece on the destination whatever the promotion.
do_move_keeps_pawn(move, b) ==
    set(set(b, move.departure, None), move.destination, move.moving_piece)

\* do_move that leaves the moving piece on the departure as well.
do_move_copies_piece(move, b) ==
    set(b, move.destination,
        IF move.promotion_to # None THEN move.promotion_to ELSE move.moving_piece)

do_move(move, b) ==
    set(set(b, move.departure, None), move.destination,
        IF move.promotion_to # None THEN move.promotion_to ELSE move.moving_piece)

\* undo_move that empties the destination instead of restoring the captured piece.
undo_move_drops_captured(move, b) ==
    set(set(b, move.destination, None), move.departure, move.moving_piece)

undo_move(move, b) ==
    set(set(b, move.destination, move.captured_piece), move.departure, move.moving_piece)

\* The while loop of is_path_clear from `intermediate` on; Position.shift raises
\* ValueError when the walk leaves the grid.
RECURSIVE path_walk(_, _, _, _, _)
path_walk(b, intermediate, destination, dx, dy) ==
    IF ~IsPosition(intermediate) THEN "ValueError"
    ELSE IF intermediate = destination THEN "clear"
    ELSE IF get(b, intermediate) # None THEN "blocked"
    ELSE path_walk(b, shift(intermediate, dx, dy), destination, dx, dy)

\* The squares on which the while loop of is_path_clear runs its body, in the
\* order of the walk from `intermediate` on.
RECURSIVE path_visited(_, _, _, _, _)
path_visited(b, intermediate, destination, dx, dy) ==
    IF ~IsPosition(intermediate) \/ intermediate = destination THEN <<>>
    ELSE IF get(b, intermediate) # None THEN <<intermediate>>
    ELSE <<intermediate>> \o path_visited(b, shift(intermediate, dx, dy), destination, dx, dy)

is_path_clear_run(b, departure, destination) ==
    LET d == direction_to(departure, destination)
    IN  IF "error" \in DOMAIN d THEN "AssertionError"
        ELSE path_walk(b, shift(departure, d.dx, d.dy), destination, d.dx, d.dy)

\* is_path_clear that does not look at the squares on the way.
is_path_clear_ignores_pieces(b, departure, destination) ==
    is_path_clear_run(EmptyBoard, departure, destination) = "clear"

is_path_clear(b, departure, destination) ==
    is_path_clear_run(b, departure, destination) = "clear"

\* forward with the two colours exchanged.
forward_reversed(color) == IF color = BLACK THEN -1 ELSE 1

\* `forward` of the PAWN case: the direction in which the pawns of a colour move.
forward_of(color) == IF color = BLACK THEN 1 ELSE -1

\* first_move that takes every rank for the home rank.
first_move_anywhere(color, departure) == departure.y \in Coords

\* `first_move` of the PAWN case: the pawn stands on the home rank of its colour.
first_move(color, departure) ==
    departure.y = (IF color = BLACK THEN 1 ELSE 6)

\* on_last_rank that takes every rank for the last one.
on_any_rank(color, destination) == destination.y \in Coords

\* The test of the promotion part of the PAWN case: the destination is on the
\* last rank for the colour.
on_last_rank(color, destination) ==
    destination.y = (IF color = BLACK THEN 7 ELSE 0)

\* first_checks that looks at the departure square before comparing the squares.
first_checks_piece_first(b, color, departure, destination) ==
    IF get(b, departure) = None
    THEN MoveError("departure have no piece")
    ELSE IF get(b, departure).color # color
    THEN MoveError("can't move enemy piece")
    ELSE IF departure = destination
    THEN MoveError("destination is the same as departure")
    ELSE [passed |-> TRUE]

\* The three checks that interpret_move makes before the match on the piece
\* type: the rejection of the first one that fails, if any.
first_checks(b, color, departure, destination) ==
    IF departure = destination
    THEN MoveError("destination is the same as departure")
    ELSE IF get(b, departure) = None
    THEN MoveError("departure have no piece")
    ELSE IF get(b, departure).color # color
    THEN MoveError("can't move enemy piece")
    ELSE [passed |-> TRUE]

interpret_move(b, color, departure, destination, promotion_to) ==
    LET moving_piece == get(b, departure)
        captured_piece == get(b, destination)
        dx == destination.x - departure.x
        dy == destination.y - departure.y
        \* the statements after the match block
        after_match ==
            IF captured_piece # None /\ captured_piece.color = color
            THEN MoveError("it's not alowed to capture allied piece")
            ELSE IF promotion_to # NoTarget
            THEN MoveError("only pawn can be promoted")
            ELSE Move(departure, destination, moving_piece, captured_piece, None)
        forward == forward_of(color)
        double_move == first_move(color, departure) /\ dy = 2 * forward
        \* the promotion part of the PAWN case
        pawn_promotion ==
            IF on_last_rank(color, destination)
            THEN IF promotion_to = NoTarget
                 THEN MoveError("pawn has to be promoted to something")
                 ELSE Move(departure, destination, moving_piece, captured_piece,
                           Piece(promotion_to, color))
            ELSE IF promotion_to # NoTarget
            THEN MoveError("pawn can't be promoted here")
            ELSE after_match
        pawn ==
            IF abs(dx) = 1 /\ dy = forward
            THEN IF captured_piece = None
                 THEN MoveError("pawn can move diagonally only when capturing")
                 ELSE pawn_promotion
            ELSE IF dx = 0
            THEN IF dy # forward /\ ~double_move
                 THEN MoveError("invalid pawn move")
                 ELSE IF double_move /\ ~is_path_clear(b, departure, destination)
                 THEN MoveError("pawn can't leap over intervening piece")
                 ELSE IF captured_piece # None
                 THEN MoveError("pawn can't capture on forward move")
                 ELSE pawn_promotion
            ELSE MoveError("invalid pawn move")
    IN  IF IsMoveError(first_checks(b, color, departure, destination))
        THEN first_checks(b, color, departure, destination)
        ELSE CASE moving_piece.typ = KING ->
                    IF abs(dx) > 1 \/ abs(dy) > 1
                    THEN MoveError("invalid king move")
                    ELSE after_match
               [] moving_piece.typ = ROOK ->
                    IF dx # 0 /\ dy # 0
                    THEN MoveError("invalid rook move")
                    ELSE IF ~is_path_clear(b, departure, destination)
                    THEN MoveError("rook can't leap over intervening pieces")
                    ELSE after_match
               [] moving_piece.typ = BISHOP ->
                    IF abs(dx) # abs(dy)
                    THEN MoveError("invalid bishop move")
                    ELSE IF ~is_path_clear(b, departure, destination)
                    THEN MoveError("bishop can't leap over intervening pieces")
                    ELSE after_match
               [] moving_piece.typ = KNIGHT ->
                    IF <<abs(dx), abs(dy)>> \notin {<<1, 2>>, <<2, 1>>}
                    THEN MoveError("invalid knight move")
                    ELSE after_match
               [] moving_piece.typ = QUEEN ->
                    IF abs(dx) # abs(dy) /\ dx # 0 /\ dy # 0
                    THEN MoveError("invalid queen move")
                    ELSE IF ~is_path_clear(b, departure, destination)
                    THEN MoveError("queen can't leap over intervening pieces")
                    ELSE after_match
               [] moving_piece.typ = PAWN -> pawn

----------------------------------------------------------------------------
\* King safety

is_position_safe(b, position, by_color) ==
    ~ \E k \in DOMAIN RowMajor :
        LET attacking_position == RowMajor[k]
        IN  /\ get(b, attacking_position) # None
            /\ get(b, attacking_position).color = by_color
            /\ IsMove(interpret_move(b, by_color, attacking_position, position, NoTarget))

\* is_king_under_attack that takes a missing king for an attacked one.
is_king_under_attack_needs_king(b, color) ==
    LET kings == SelectSeq(RowMajor, LAMBDA p : get(b, p) = Piece(KING, color))
    IN  IF kings = <<>>
        THEN TRUE
        ELSE ~is_position_safe(b, kings[1], opposite(color))

is_king_under_attack(b, color) ==
    \* the kings of `color`, in the order in which to_mapping() yields them
    LET kings == SelectSeq(RowMajor, LAMBDA p : get(b, p) = Piece(KING, color))
    IN  IF kings = <<>>
        THEN FALSE
        ELSE ~is_position_safe(b, kings[1], opposite(color))

\* all_positions of deduce_king_state: x is the outer loop, y the inner one.
all_positions ==
    [k \in 1 .. (BOARD_SIDE_LEN * BOARD_SIDE_LEN) |->
        Position((k - 1) \div BOARD_SIDE_LEN, (k - 1) % BOARD_SIDE_LEN)]

\* One iteration of the loop that leaves the tried move on the board.
try_candidate_without_undo(b, color, departure, destination) ==
    LET potential_move == interpret_move(b, color, departure, destination, NoTarget)
    IN  IF ~IsMove(potential_move)
        THEN [escaped |-> FALSE, board |-> b]
        ELSE LET done == do_move(potential_move, b)
             IN  [escaped |-> ~is_king_under_attack(done, color), board |-> done]

\* One iteration of the for loop of deduce_king_state: the candidate
\* (pieces_positions[i], all_positions[j]) is interpreted by the generator and,
\* when it is a Move, tried on the board and taken back.
try_candidate(b, color, departure, destination) ==
    LET potential_move == interpret_move(b, color, departure, destination, NoTarget)
    IN  IF ~IsMove(potential_move)
        THEN [escaped |-> FALSE, board |-> b]
        ELSE LET done == do_move(potential_move, b)
             IN  [escaped |-> ~is_king_under_attack(done, color),
                  board |-> undo_move(potential_move, done)]

\* The for loop of deduce_king_state over the candidates number lo..hi, in the
\* order of the generator (pieces_positions outer, all_positions inner), run
\* first half then second half; it stops at the first candidate that escapes.
\* The board is the one object that do_move and undo_move mutate, so it is
\* threaded through the loop.
RECURSIVE try_candidates(_, _, _, _, _)
try_candidates(b, color, pieces_positions, lo, hi) ==
    IF lo > hi
    THEN [escaped |-> FALSE, board |-> b]
    ELSE IF lo = hi
    THEN try_candidate(b, color,
                       pieces_positions[((lo - 1) \div Len(all_positions)) + 1],
                       all_positions[((lo - 1) % Len(all_positions)) + 1])
    ELSE LET mid == (lo + hi) \div 2
             first == try_candidates(b, color, pieces_positions, lo, mid)
         IN  IF first.escaped
             THEN first
             ELSE try_candidates(first.board, color, pieces_positions, mid + 1, hi)

\* deduce_king_state that tries the moves of the king only.
deduce_king_state_king_only(b, next_moving_color) ==
    IF ~is_king_under_attack(b, next_moving_color)
    THEN [state |-> SAFE, board |-> b]
    ELSE LET pieces_positions ==
                 SelectSeq(to_mapping(b), LAMBDA p : get(b, p) = Piece(KING, next_moving_color))
             loop == try_candidates(b, next_moving_color, pieces_positions,
                                    1, Len(pieces_positions) * Len(all_positions))
         IN  [state |-> IF loop.escaped THEN CHECK ELSE CHECKMATE, board |-> loop.board]

\* deduce_king_state: the returned KingState and the board as the call leaves it.
deduce_king_state_run(b, next_moving_color) ==
    IF ~is_king_under_attack(b, next_moving_color)
    THEN [state |-> SAFE, board |-> b]
    ELSE LET pieces_positions ==
                 SelectSeq(to_mapping(b), LAMBDA p : get(b, p).color = next_moving_color)
             loop == try_candidates(b, next_moving_color, pieces_positions,
                                    1, Len(pieces_positions) * Len(all_positions))
         IN  [state |-> IF loop.escaped THEN CHECK ELSE CHECKMATE, board |-> loop.board]

deduce_king_state(b, next_moving_color) ==
    deduce_king_state_run(b, next_moving_color).state

----------------------------------------------------------------------------
\* Game

\* Committed moves explored from each initial Game.
MaxMoves == 1

SelfCheckError == MoveError("move leaves king under immediate attack")

\* The caller holds no result: before the first call, or after it has looked at
\* the last one.
NoReturn == [none |-> TRUE]

NoCall == [op |-> "none"]

MakeMoveCall(departure, destination, promotion_to) ==
    [op |-> "make_move", departure |-> departure, destination |-> destination,
     promotion_to |-> promotion_to]

\* Boards of tests/test_kingdom_chess.py.
TwoKings == from_mapping({<<2, 5, KING, WHITE>>, <<1, 2, KING, BLACK>>})

KingsTwoApart == from_mapping({<<5, 4, KING, WHITE>>, <<3, 5, KING, BLACK>>})

PinnedPawn ==
    from_mapping({<<2, 2, KING, BLACK>>, <<3, 3, PAWN, BLACK>>,
                  <<2, 4, PAWN, WHITE>>, <<4, 4, BISHOP, WHITE>>})

CheckBoard ==
    from_mapping({<<2, 2, KING, BLACK>>, <<3, 3, PAWN, BLACK>>,
                  <<2, 4, QUEEN, WHITE>>, <<4, 7, KING, WHITE>>})

CheckmateBoard ==
    from_mapping({<<0, 0, KING, BLACK>>, <<0, 2, KING, WHITE>>,
                  <<1, 2, ROOK, WHITE>>, <<2, 2, QUEEN, WHITE>>})

SavedByAllyBoard ==
    from_mapping({<<0, 0, KING, BLACK>>, <<4, 0, BISHOP, BLACK>>, <<0, 2, KING, WHITE>>,
                  <<1, 2, ROOK, WHITE>>, <<2, 2, QUEEN, WHITE>>})

\* Further boards handed to Game(board, moving_color).
\* White mates with the queen from c3 to c6.
MateInOne ==
    from_mapping({<<0, 0, KING, BLACK>>, <<0, 2, KING, WHITE>>,
                  <<1, 2, ROOK, WHITE>>, <<2, 5, QUEEN, WHITE>>})

\* The black pawn, one step from promotion, shields its king from the rook.
PinnedPromotion ==
    from_mapping({<<0, 6, KING, BLACK>>, <<3, 6, PAWN, BLACK>>, <<7, 6, ROOK, WHITE>>,
                  <<7, 0, KING, WHITE>>, <<4, 7, KNIGHT, WHITE>>})

\* A black pawn one step from promotion, next to the squares of the white king.
PawnByKing ==
    from_mapping({<<4, 7, KING, WHITE>>, <<2, 6, PAWN, BLACK>>, <<0, 0, KING, BLACK>>})

\* The black pawn can interpose on its promotion square.
PromotionEscape ==
    from_mapping({<<0, 7, KING, BLACK>>, <<1, 6, PAWN, BLACK>>,
                  <<1, 5, KING, WHITE>>, <<7, 7, ROOK, WHITE>>})

\* A white pawn one step from promotion, diagonally behind a white rook.
PawnByAlly ==
    from_mapping({<<1, 1, PAWN, WHITE>>, <<0, 0, ROOK, WHITE>>,
                  <<4, 7, KING, WHITE>>, <<7, 3, KING, BLACK>>})

KnightsBoard ==
    from_mapping({<<1, 7, KNIGHT, WHITE>>, <<4, 7, KING, WHITE>>,
                  <<4, 0, KING, BLACK>>, <<6, 0, KNIGHT, BLACK>>})

\* The games Game(board, moving_color) that are started.
GameSetups ==
    { <<TwoKings, WHITE>>, <<TwoKings, BLACK>>,
      <<KingsTwoApart, WHITE>>,
      <<PinnedPawn, BLACK>>,
      <<CheckBoard, WHITE>>,
      <<CheckmateBoard, BLACK>>,
      <<SavedByAllyBoard, BLACK>>,
      <<MateInOne, WHITE>>,
      <<PinnedPromotion, BLACK>>,
      <<PawnByKing, WHITE>>, <<PawnByKing, BLACK>>,
      <<PromotionEscape, BLACK>>,
      <<PawnByAlly, WHITE>>,
      <<KnightsBoard, WHITE>> }

\* Game.__init__
GameInit(b, color) ==
    LET run == deduce_king_state_run(b, opposite(color))
    IN  /\ board = run.board
        /\ moving_color = color
        /\ enemy_color = opposite(color)
        /\ enemy_king_state = run.state

\* Game(board, moving_color)
Init ==
    /\ \E setup \in GameSetups : GameInit(setup[1], setup[2])
    /\ call = NoCall
    /\ ret = NoReturn
    /\ moves = 0

\* Game.fresh()
fresh ==
    /\ GameInit(initialy_filled, WHITE)
    /\ call = NoCall
    /\ ret = NoReturn
    /\ moves = 0

\* Every way a Game is constructed.
InitAny == Init \/ fresh

\* make_move with the colours swapped before the candidate is interpreted.
make_move_swap_first(departure, destination, promotion_to) ==
    LET move == interpret_move(board, moving_color, departure, destination, promotion_to)
    IN  IF IsMoveError(move)
        THEN /\ ret' = move
             /\ moving_color' = enemy_color
             /\ enemy_color' = moving_color
             /\ UNCHANGED <<board, enemy_king_state>>
        ELSE LET done == do_move(move, board)
             IN  IF is_king_under_attack(done, moving_color)
                 THEN /\ board' = undo_move(move, done)
                      /\ ret' = SelfCheckError
                      /\ UNCHANGED <<moving_color, enemy_color, enemy_king_state>>
                 ELSE LET run == deduce_king_state_run(done, moving_color)
                      IN  /\ moving_color' = enemy_color
                          /\ enemy_color' = moving_color
                          /\ enemy_king_state' = run.state
                          /\ board' = run.board
                          /\ ret' = move

\* make_move without the undo_move on the self-check path.
make_move_no_undo(departure, destination, promotion_to) ==
    LET move == interpret_move(board, moving_color, departure, destination, promotion_to)
    IN  IF IsMoveError(move)
        THEN /\ ret' = move
             /\ UNCHANGED <<board, moving_color, enemy_color, enemy_king_state>>
        ELSE LET done == do_move(move, board)
             IN  IF is_king_under_attack(done, moving_color)
                 THEN /\ board' = done
                      /\ ret' = SelfCheckError
                      /\ UNCHANGED <<moving_color, enemy_color, enemy_king_state>>
                 ELSE LET run == deduce_king_state_run(done, moving_color)
                      IN  /\ moving_color' = enemy_color
                          /\ enemy_color' = moving_color
                          /\ enemy_king_state' = run.state
                          /\ board' = run.board
                          /\ ret' = move

\* make_move without the is_king_under_attack test: every interpreted Move commits.
make_move_no_self_check(departure, destination, promotion_to) ==
    LET move == interpret_move(board, moving_color, departure, destination, promotion_to)
    IN  IF IsMoveError(move)
        THEN /\ ret' = move
             /\ UNCHANGED <<board, moving_color, enemy_color, enemy_king_state>>
        ELSE LET run == deduce_king_state_run(do_move(move, board), moving_color)
             IN  /\ moving_color' = enemy_color
                 /\ enemy_color' = moving_color
                 /\ enemy_king_state' = run.state
                 /\ board' = run.board
                 /\ ret' = move

\* make_move that assigns only _moving_color on commit.
make_move_half_swap(departure, destination, promotion_to) ==
    LET move == interpret_move(board, moving_color, departure, destination, promotion_to)
    IN  IF IsMoveError(move)
        THEN /\ ret' = move
             /\ UNCHANGED <<board, moving_color, enemy_color, enemy_king_state>>
        ELSE LET done == do_move(move, board)
             IN  IF is_king_under_attack(done, moving_color)
                 THEN /\ board' = undo_move(move, done)
                      /\ ret' = SelfCheckError
                      /\ UNCHANGED <<moving_color, enemy_color, enemy_king_state>>
                 ELSE LET run == deduce_king_state_run(done, moving_color)
                      IN  /\ moving_color' = enemy_color
                          /\ enemy_color' = enemy_color
                          /\ enemy_king_state' = run.state
                          /\ board' = run.board
                          /\ ret' = move

\* make_move that keeps the cached KingState on commit.
make_move_stale_state(departure, destination, promotion_to) ==
    LET move == interpret_move(board, moving_color, departure, destination, promotion_to)
    IN  IF IsMoveError(move)
        THEN /\ ret' = move
             /\ UNCHANGED <<board, moving_color, enemy_color, enemy_king_state>>
        ELSE LET done == do_move(move, board)
             IN  IF is_king_under_attack(done, moving_color)
                 THEN /\ board' = undo_move(move, done)
                      /\ ret' = SelfCheckError
                      /\ UNCHANGED <<moving_color, enemy_color, enemy_king_state>>
                 ELSE /\ moving_color' = enemy_color
                      /\ enemy_color' = moving_color
                      /\ enemy_king_state' = enemy_king_state
                      /\ board' = done
                      /\ ret' = move

\* Game.make_move
make_move(departure, destination, promotion_to) ==
    LET move == interpret_move(board, moving_color, departure, destination, promotion_to)
    IN  IF IsMoveError(move)
        THEN /\ ret' = move
             /\ UNCHANGED <<board, moving_color, enemy_color, enemy_king_state>>
        ELSE LET done == do_move(move, board)
             IN  IF is_king_under_attack(done, moving_color)
                 THEN /\ board' = undo_move(move, done)
                      /\ ret' = SelfCheckError
                      /\ UNCHANGED <<moving_color, enemy_color, enemy_king_state>>
                 ELSE LET run == deduce_king_state_run(done, moving_color)
                      IN  /\ moving_color' = enemy_color
                          /\ enemy_color' = moving_color
                          /\ enemy_king_state' = run.state
                          /\ board' = run.board
                          /\ ret' = move

\* Departures a caller tries: every occupied square, and the first empty square
\* of the first row that has one (an empty departure is rejected before anything
\* else about it is read).
CallDepartures(b) ==
    {p \in Positions :
        \/ get(b, p) # None
        \/ \A q \in Positions :
              (q.y < p.y \/ (q.y = p.y /\ q.x < p.x)) => get(b, q) # None}

\* A caller of Game.make_move (play's loop body): one call, with any arguments,
\* while fewer than `limit` moves are committed.
MakeMoveWithin(limit) ==
    /\ ret = NoReturn
    /\ moves < limit
    /\ \E departure \in CallDepartures(board), destination \in Positions,
          promotion_to \in PromotionTarget \cup {NoTarget} :
            /\ call' = MakeMoveCall(departure, destination, promotion_to)
            /\ make_move(departure, destination, promotion_to)
    /\ moves' = IF IsMove(ret') THEN moves + 1 ELSE moves

\* The caller has looked at the returned value and goes on to its next call.
Continue ==
    /\ ret # NoReturn
    /\ call' = NoCall
    /\ ret' = NoReturn
    /\ UNCHANGED <<board, moving_color, enemy_color, enemy_king_state, moves>>

MakeMove == MakeMoveWithin(MaxMoves)

Next == MakeMove \/ Continue

Spec == Init /\ [][Next]_vars

\* The same calls, on the constructed games and on the fresh one.
SpecAny == InitAny /\ [][Next]_vars

\* Longer play, from the boards with few legal moves.
MaxPlies == 2

LongPlaySetups ==
    { <<TwoKings, BLACK>>, <<KingsTwoApart, WHITE>>, <<PawnByKing, WHITE>>,
      <<PawnByKing, BLACK>>, <<PinnedPawn, BLACK>>, <<PinnedPawn, WHITE>> }

InitPlay ==
    /\ \E setup \in LongPlaySetups : GameInit(setup[1], setup[2])
    /\ call = NoCall
    /\ ret = NoReturn
    /\ moves = 0

PlayMove == MakeMoveWithin(MaxPlies)

NextPlay == PlayMove \/ Continue

SpecPlay == InitPlay /\ [][NextPlay]_vars

----------------------------------------------------------------------------
\* Game.parse_move_notation; a notation is the sequence of its characters

ascii_uppercase ==
    <<"A", "B", "C", "D", "E", "F", "G", "H", "I", "J", "K", "L", "M",
      "N", "O", "P", "Q", "R", "S", "T", "U", "V", "W", "X", "Y", "Z">>

ascii_lowercase ==
    <<"a", "b", "c", "d", "e", "f", "g", "h", "i", "j", "k", "l", "m",
      "n", "o", "p", "q", "r", "s", "t", "u", "v", "w", "x", "y", "z">>

\* str.lower
lower(str) ==
    [i \in DOMAIN str |->
        IF find(ascii_uppercase, str[i]) = -1
        THEN str[i]
        ELSE ascii_lowercase[find(ascii_uppercase, str[i]) + 1]]

\* PieceType.from_char
from_char(char) ==
    LET c == lower(<<char>>)[1]
    IN  CASE c = "k" -> KING
          [] c = "q" -> QUEEN
          [] c = "r" -> ROOK
          [] c = "b" -> BISHOP
          [] c = "n" -> KNIGHT
          [] c = "p" -> PAWN
          [] OTHER -> "ValueError"

\* The lengths of the optional groups piece, departure_file and departure_rank
\* in the order in which the greedy `?` of the pattern tries them.
group_lengths ==
    << <<1, 1, 1>>, <<1, 1, 0>>, <<1, 0, 1>>, <<1, 0, 0>>,
       <<0, 1, 1>>, <<0, 1, 0>>, <<0, 0, 1>>, <<0, 0, 0>> >>

\* The whole of `str` matches the pattern with the optional groups of lengths `g`.
matches(str, g) ==
    LET d == g[1] + g[2] + g[3]
    IN  /\ Len(str) \in {d + 2, d + 4}
        /\ g[1] = 1 => find(<<"k", "q", "r", "b", "n", "p">>, str[1]) # -1
        /\ g[2] = 1 => find(FILES, str[g[1] + 1]) # -1
        /\ g[3] = 1 => find(RANKS, str[g[1] + g[2] + 1]) # -1
        /\ find(FILES, str[d + 1]) # -1
        /\ find(RANKS, str[d + 2]) # -1
        /\ Len(str) = d + 4 =>
              str[d + 3] = "/" /\ find(<<"q", "r", "b", "n">>, str[d + 4]) # -1

NoMatch == [match |-> FALSE]

\* re.fullmatch of the pattern of parse_move_notation: the groups of the first
\* match in backtracking order, an absent group being the empty sequence.
fullmatch(str) ==
    LET found == SelectSeq(group_lengths, LAMBDA g : matches(str, g))
        g == found[1]
        d == g[1] + g[2] + g[3]
    IN  IF found = <<>>
        THEN NoMatch
        ELSE [piece |-> SubSeq(str, 1, g[1]),
              departure_file |-> SubSeq(str, g[1] + 1, g[1] + g[2]),
              departure_rank |-> SubSeq(str, g[1] + g[2] + 1, d),
              destination |-> SubSeq(str, d + 1, d + 2),
              promotion_to |-> SubSeq(str, d + 4, Len(str))]

\* all_potential_moves of parse_move_notation for the groups `match`.
all_potential_moves(b, color, match) ==
    LET piece_type == IF match.piece # <<>> THEN from_char(match.piece[1]) ELSE PAWN
        moving_piece == Piece(piece_type, color)
        destination == from_coordinate(match.destination)
        promotion_to ==
            IF match.promotion_to # <<>> THEN from_char(match.promotion_to[1]) ELSE NoTarget
        potential_moving_pieces_positions ==
            SelectSeq(to_mapping(b), LAMBDA position :
                /\ get(b, position) = moving_piece
                /\ match.departure_file = <<>>
                      \/ position.x = find(FILES, match.departure_file[1])
                /\ match.departure_rank = <<>>
                      \/ position.y = find(RANKS, match.departure_rank[1]))
        accepted ==
            SelectSeq(potential_moving_pieces_positions, LAMBDA position :
                IsMove(interpret_move(b, color, position, destination, promotion_to)))
    IN  [i \in DOMAIN accepted |->
            interpret_move(b, color, accepted[i], destination, promotion_to)]

\* parse_move_notation that settles for the first of several candidates.
parse_move_notation_first_candidate(b, color, notation) ==
    LET match == fullmatch(lower(notation))
    IN  IF match = NoMatch
        THEN MoveError("invalid move notation")
        ELSE LET moves_found == all_potential_moves(b, color, match)
             IN  IF Len(moves_found) = 0
                 THEN MoveError("invalid move")
                 ELSE moves_found[1]

parse_move_notation(b, color, notation) ==
    LET match == fullmatch(lower(notation))
    IN  IF match = NoMatch
        THEN MoveError("invalid move notation")
        ELSE LET moves_found == all_potential_moves(b, color, match)
             IN  IF Len(moves_found) = 1
                 THEN moves_found[1]
                 ELSE IF Len(moves_found) = 0
                 THEN MoveError("invalid move")
                 ELSE MoveError("ambiguous move notation")

\* Two white knights that can both reach d2, and two black rooks on one rank.
TwoKnights ==
    from_mapping({<<1, 7, KNIGHT, WHITE>>, <<5, 5, KNIGHT, WHITE>>, <<4, 7, KING, WHITE>>,
                  <<4, 0, KING, BLACK>>, <<0, 0, ROOK, BLACK>>, <<7, 0, ROOK, BLACK>>,
                  <<6, 6, PAWN, WHITE>>, <<1, 1, PAWN, BLACK>>})

\* The games on which notations are parsed.
NotationSetups ==
    { <<initialy_filled, WHITE>>, <<initialy_filled, BLACK>>,
      <<TwoKnights, WHITE>>, <<TwoKnights, BLACK>>,
      <<PawnByAlly, WHITE>>, <<PinnedPromotion, BLACK>> }

\* The notations that are typed: an optional piece letter, an optional
\* departure file, an optional departure rank, a destination and an optional
\* promotion, and the same with a character that does not belong.
Notations ==
    LET typed ==
            {piece \o file \o rank \o destination \o promotion :
                piece \in {<<>>, <<"N">>, <<"n">>, <<"R">>, <<"b">>},
                file \in {<<>>, <<"b">>, <<"g">>, <<"H">>},
                rank \in {<<>>, <<"1">>, <<"3">>, <<"8">>},
                destination \in {<<"f", "3">>, <<"d", "2">>, <<"D", "8">>, <<"c", "3">>,
                                 <<"g", "4">>, <<"a", "8">>, <<"b", "1">>},
                promotion \in {<<>>, <<"/", "q">>, <<"/", "N">>}}
    IN  typed \cup {<<>>, <<"f">>, <<"x", "f", "3">>, <<"N", "f", "9">>, <<"f", "3", "/", "k">>,
                    <<"N", "f", "3", "+">>}

InitNotation ==
    /\ \E setup \in NotationSetups : GameInit(setup[1], setup[2])
    /\ call = NoCall
    /\ ret = NoReturn
    /\ moves = 0

\* game.parse_move_notation(notation)
ParseMoveNotation ==
    /\ ret = NoReturn
    /\ \E notation \in Notations :
        /\ call' = [op |-> "parse_move_notation", notation |-> notation]
        /\ ret' = parse_move_notation(board, moving_color, notation)
    /\ UNCHANGED <<board, moving_color, enemy_color, enemy_king_state, moves>>

NextNotation == ParseMoveNotation \/ Continue

SpecNotation == InitNotation /\ [][NextNotation]_vars

----------------------------------------------------------------------------
\* Position of the two packages, constructed directly

\* No Game holds the board.
NoGame == "none"

chesspy_BOARD_SIDE_LEN == 8

\* chesspy.Position.__post_init__
chesspy_Position(x, y) ==
    LET x_invalid == ~(0 <= x /\ x < chesspy_BOARD_SIDE_LEN)
        y_invalid == ~(0 <= y /\ y < chesspy_BOARD_SIDE_LEN)
    IN  IF x_invalid /\ y_invalid
        THEN [error |-> "ValueError", msg |-> "invalid values", x |-> x, y |-> y]
        ELSE IF x_invalid
        THEN [error |-> "ValueError", msg |-> "invalid x value", x |-> x, y |-> y]
        ELSE IF y_invalid
        THEN [error |-> "ValueError", msg |-> "invalid y value", x |-> x, y |-> y]
        ELSE [x |-> x, y |-> y]

\* The integers handed to the constructors and to shift.
CoordInputs == -3 .. 10

ShiftInputs == -8 .. 8

InitPosition ==
    /\ board = EmptyBoard
    /\ moving_color = NoGame
    /\ enemy_color = NoGame
    /\ enemy_king_state = NoGame
    /\ call = NoCall
    /\ ret = NoReturn
    /\ moves = 0

\* Position(x, y) of kingdom_chess
CallPosition ==
    /\ call = NoCall
    /\ \E x \in CoordInputs, y \in CoordInputs :
        /\ call' = [op |-> "Position", x |-> x, y |-> y]
        /\ ret' = Position(x, y)
    /\ UNCHANGED <<board, moving_color, enemy_color, enemy_king_state, moves>>

\* Position(x, y) of chesspy
CallChesspyPosition ==
    /\ call = NoCall
    /\ \E x \in CoordInputs, y \in CoordInputs :
        /\ call' = [op |-> "chesspy.Position", x |-> x, y |-> y]
        /\ ret' = chesspy_Position(x, y)
    /\ UNCHANGED <<board, moving_color, enemy_color, enemy_king_state, moves>>

\* Position(p.x, p.y) for the Position p that a constructor returned.
CallRebuild ==
    /\ call.op \in {"Position", "chesspy.Position"}
    /\ IsPosition(ret)
    /\ call' = [op |-> "rebuild", package |-> call.op, self |-> ret]
    /\ ret' = IF call.op = "Position" THEN Position(ret.x, ret.y)
              ELSE chesspy_Position(ret.x, ret.y)
    /\ UNCHANGED <<board, moving_color, enemy_color, enemy_king_state, moves>>

\* p.shift(dx, dy) for the Position p that the kingdom_chess constructor returned.
CallShift ==
    /\ call.op = "Position"
    /\ IsPosition(ret)
    /\ \E dx \in ShiftInputs, dy \in ShiftInputs :
        /\ call' = [op |-> "shift", self |-> ret, dx |-> dx, dy |-> dy]
        /\ ret' = shift(ret, dx, dy)
    /\ UNCHANGED <<board, moving_color, enemy_color, enemy_king_state, moves>>

\* p.direction_to(destination) for the Position p that the kingdom_chess
\* constructor returned and any destination on the board.
CallDirectionTo ==
    /\ call.op = "Position"
    /\ IsPosition(ret)
    /\ \E destination \in Positions :
        /\ call' = [op |-> "direction_to", self |-> ret, destination |-> destination]
        /\ ret' = direction_to(ret, destination)
    /\ UNCHANGED <<board, moving_color, enemy_color, enemy_king_state, moves>>

NextPosition ==
    CallPosition \/ CallChesspyPosition \/ CallRebuild \/ CallShift \/ CallDirectionTo

SpecPosition == InitPosition /\ [][NextPosition]_vars

----------------------------------------------------------------------------
\* Board text of the two packages

\* unicode_to_piece: a glyph is written as its code point (U+22C5 is the dot
\* operator of the empty cell, U+2654 .. U+2659 the white pieces, U+265A ..
\* U+265F the black ones).
unicode_to_piece ==
    [g \in {"U+22C5", "U+2654", "U+2655", "U+2656", "U+2657", "U+2658", "U+2659",
            "U+265A", "U+265B", "U+265C", "U+265D", "U+265E", "U+265F"} |->
        CASE g = "U+22C5" -> None
          [] g = "U+2654" -> Piece(KING, WHITE)
          [] g = "U+2655" -> Piece(QUEEN, WHITE)
          [] g = "U+2656" -> Piece(ROOK, WHITE)
          [] g = "U+2657" -> Piece(BISHOP, WHITE)
          [] g = "U+2658" -> Piece(KNIGHT, WHITE)
          [] g = "U+2659" -> Piece(PAWN, WHITE)
          [] g = "U+265A" -> Piece(KING, BLACK)
          [] g = "U+265B" -> Piece(QUEEN, BLACK)
          [] g = "U+265C" -> Piece(ROOK, BLACK)
          [] g = "U+265D" -> Piece(BISHOP, BLACK)
          [] g = "U+265E" -> Piece(KNIGHT, BLACK)
          [] g = "U+265F" -> Piece(PAWN, BLACK)]

\* piece_to_unicode: the table above with keys and values exchanged.
piece_to_unicode(piece) ==
    CHOOSE g \in DOMAIN unicode_to_piece : unicode_to_piece[g] = piece

\* "".join(unicode.split()): the text, a sequence of characters, without its
\* whitespace.
split_join(unicode) == SelectSeq(unicode, LAMBDA c : c \notin {" ", "\n"})

\* Board.to_unicode: the glyphs of a row joined by " ", the rows joined by
\* "\n", and a closing "\n".
to_unicode(b) ==
    [k \in 1 .. (2 * BOARD_SIDE_LEN * BOARD_SIDE_LEN) |->
        LET row == (k - 1) \div (2 * BOARD_SIDE_LEN) + 1
            j == ((k - 1) % (2 * BOARD_SIDE_LEN)) + 1
        IN  IF j = 2 * BOARD_SIDE_LEN THEN "\n"
            ELSE IF j % 2 = 0 THEN " "
            ELSE piece_to_unicode(b[row][(j + 1) \div 2])]

\* The loop of from_unicode over zip(positions, unicode, strict=True): the
\* first character that is no glyph raises KeyError, a text that is shorter or
\* longer than the positions raises ValueError when zip runs out of one of
\* them, and otherwise every position has got the piece of its glyph.
fill(positions, unicode) ==
    LET chars == split_join(unicode)
        paired == IF Len(chars) < Len(positions) THEN Len(chars) ELSE Len(positions)
    IN  IF \E k \in 1 .. paired : chars[k] \notin DOMAIN unicode_to_piece
        THEN [error |-> "KeyError"]
        ELSE IF Len(chars) # Len(positions)
        THEN [error |-> "ValueError"]
        ELSE [result |->
                [y \in 1 .. BOARD_SIDE_LEN |-> [x \in 1 .. BOARD_SIDE_LEN |->
                    LET k == CHOOSE k \in 1 .. Len(positions) :
                                 positions[k] = Position(x - 1, y - 1)
                    IN  unicode_to_piece[chars[k]]]]]

\* The positions of chesspy's Board.from_unicode: x in the outer loop.
chesspy_positions ==
    [k \in 1 .. (chesspy_BOARD_SIDE_LEN * chesspy_BOARD_SIDE_LEN) |->
        chesspy_Position((k - 1) \div chesspy_BOARD_SIDE_LEN,
                         (k - 1) % chesspy_BOARD_SIDE_LEN)]

\* Board.from_unicode that reads the text file by file.
from_unicode_column_major(unicode) == fill(chesspy_positions, unicode)

\* Board.from_unicode of kingdom_chess: y in the outer loop.
from_unicode(unicode) == fill(RowMajor, unicode)

\* Board.from_unicode of chesspy
chesspy_from_unicode(unicode) == fill(chesspy_positions, unicode)

\* Board.__str__ of chesspy
chesspy_str(b) ==
    [k \in 1 .. (2 * chesspy_BOARD_SIDE_LEN * chesspy_BOARD_SIDE_LEN) |->
        LET y == (k - 1) \div (2 * chesspy_BOARD_SIDE_LEN)
            j == ((k - 1) % (2 * chesspy_BOARD_SIDE_LEN)) + 1
        IN  IF j = 2 * chesspy_BOARD_SIDE_LEN THEN "\n"
            ELSE IF j % 2 = 0 THEN " "
            ELSE piece_to_unicode(b[y + 1][(j + 1) \div 2])]

\* Texts handed to from_unicode, made from the text t that the renderer wrote:
\* t itself, t without whitespace, t behind a line break and an indentation, t
\* without its last glyph, t with one glyph more, and t with a first character
\* that is no glyph.
TextsFrom(t) ==
    {t,
     split_join(t),
     <<"\n", " ", " ">> \o t,
     SubSeq(t, 1, Len(t) - 2),
     t \o <<"U+22C5">>,
     [t EXCEPT ![1] = "x"]}

\* Boards that are written and read: a fixture with one more piece on any
\* square.
TextBoards == {EmptyBoard, initialy_filled}

InitUnicode ==
    /\ \E base \in TextBoards, pos \in Positions, typ \in PieceType, color \in Color :
        board = set(base, pos, Piece(typ, color))
    /\ moving_color = NoGame
    /\ enemy_color = NoGame
    /\ enemy_king_state = NoGame
    /\ call = NoCall
    /\ ret = NoReturn
    /\ moves = 0

\* board.to_unicode()
CallToUnicode ==
    /\ call = NoCall
    /\ call' = [op |-> "to_unicode", self |-> board]
    /\ ret' = [result |-> to_unicode(board)]
    /\ UNCHANGED <<board, moving_color, enemy_color, enemy_king_state, moves>>

\* Board.from_unicode(unicode) of kingdom_chess
CallFromUnicode ==
    /\ call.op = "to_unicode"
    /\ \E unicode \in TextsFrom(ret.result) :
        /\ call' = [op |-> "from_unicode", unicode |-> unicode]
        /\ ret' = from_unicode(unicode)
    /\ UNCHANGED <<board, moving_color, enemy_color, enemy_king_state, moves>>

\* str(board) of chesspy
CallChesspyStr ==
    /\ call = NoCall
    /\ call' = [op |-> "chesspy.str", self |-> board]
    /\ ret' = [result |-> chesspy_str(board)]
    /\ UNCHANGED <<board, moving_color, enemy_color, enemy_king_state, moves>>

\* Board.from_unicode(unicode) of chesspy
CallChesspyFromUnicode ==
    /\ call.op = "chesspy.str"
    /\ \E unicode \in TextsFrom(ret.result) :
        /\ call' = [op |-> "chesspy.from_unicode", unicode |-> unicode]
        /\ ret' = chesspy_from_unicode(unicode)
    /\ UNCHANGED <<board, moving_color, enemy_color, enemy_king_state, moves>>

NextUnicode ==
    CallToUnicode \/ CallFromUnicode \/ CallChesspyStr \/ CallChesspyFromUnicode

SpecUnicode == InitUnicode /\ [][NextUnicode]_vars

----------------------------------------------------------------------------
\* The move functions called directly on a board, as the tests call them

\* Squares of the piece that is moved: one step from the top edge (home rank of
\* the black pawns, last step of the white ones), one step from the bottom edge
\* (the reverse), and the middle of the board.
Anchors == {Position(1, 1), Position(6, 6), Position(3, 4)}

\* Offsets from the moved piece to a second piece: the adjacent squares, two
\* steps along a rank or a file, and the knight's offsets.
NearOffsets ==
    {d \in (-2 .. 2) \X (-2 .. 2) : d # <<0, 0>> /\ ~(abs(d[1]) = 2 /\ abs(d[2]) = 2)}

MovedPieces ==
    {Piece(typ, WHITE) : typ \in PieceType} \cup {Piece(PAWN, BLACK), Piece(QUEEN, BLACK)}

OtherPieces == {Piece(ROOK, WHITE), Piece(PAWN, BLACK)}

\* A board with one piece on an anchor, alone or with a second piece near it.
InitInterpret ==
    /\ \E anchor \in Anchors, piece \in MovedPieces :
        \/ board = set(EmptyBoard, anchor, piece)
        \/ \E other \in OtherPieces, d \in NearOffsets :
            /\ IsPosition(shift(anchor, d[1], d[2]))
            /\ board = set(set(EmptyBoard, anchor, piece), shift(anchor, d[1], d[2]), other)
    /\ moving_color = NoGame
    /\ enemy_color = NoGame
    /\ enemy_king_state = NoGame
    /\ call = NoCall
    /\ ret = NoReturn
    /\ moves = 0

InterpretMoveCall(color, departure, destination, promotion_to) ==
    [op |-> "interpret_move", color |-> color, departure |-> departure,
     destination |-> destination, promotion_to |-> promotion_to]

\* A call of interpret_move that leaves the interpreted move applied on the board.
CallInterpretMove_applies ==
    /\ call = NoCall
    /\ \E color \in Color, departure \in {a \in Anchors : get(board, a) # None},
          destination \in Positions, promotion_to \in PromotionTarget \cup {NoTarget} :
            LET move == interpret_move(board, color, departure, destination, promotion_to)
            IN  /\ call' = [op |-> "interpret_move", color |-> color, departure |-> departure,
                            destination |-> destination, promotion_to |-> promotion_to]
                /\ ret' = move
                /\ board' = IF IsMove(move) THEN do_move(move, board) ELSE board
    /\ UNCHANGED <<moving_color, enemy_color, enemy_king_state, moves>>

\* interpret_move(board, color, departure, destination, promotion_to), from a
\* piece on an anchor to any square, for either colour, with any promotion target.
CallInterpretMove ==
    /\ call = NoCall
    /\ \E color \in Color, departure \in {a \in Anchors : get(board, a) # None},
          destination \in Positions, promotion_to \in PromotionTarget \cup {NoTarget} :
            /\ call' = InterpretMoveCall(color, departure, destination, promotion_to)
            /\ ret' = interpret_move(board, color, departure, destination, promotion_to)
    /\ UNCHANGED <<board, moving_color, enemy_color, enemy_king_state, moves>>

\* interpret_move from the square below the anchor, which is empty or holds the
\* second piece, without a promotion target or with one.
CallInterpretMoveBelow ==
    /\ call = NoCall
    /\ \E color \in Color, anchor \in {a \in Anchors : get(board, a) # None},
          destination \in Positions, promotion_to \in {NoTarget, QUEEN} :
            /\ call' = InterpretMoveCall(color, shift(anchor, 0, 1), destination, promotion_to)
            /\ ret' = interpret_move(board, color, shift(anchor, 0, 1), destination, promotion_to)
    /\ UNCHANGED <<board, moving_color, enemy_color, enemy_king_state, moves>>

\* do_move(move, board) with the Move that interpret_move returned; the caller
\* keeps what the board was (the `expected` mapping of the tests).
CallDoMove ==
    /\ call.op = "interpret_move"
    /\ IsMove(ret)
    /\ board' = do_move(ret, board)
    /\ call' = [op |-> "do_move", move |-> ret, expected |-> board]
    /\ ret' = NoReturn
    /\ UNCHANGED <<moving_color, enemy_color, enemy_king_state, moves>>

\* undo_move(move, board) right after the do_move of the same Move.
CallUndoMove ==
    /\ call.op = "do_move"
    /\ board' = undo_move(call.move, board)
    /\ call' = [op |-> "undo_move", move |-> call.move, expected |-> call.expected]
    /\ ret' = NoReturn
    /\ UNCHANGED <<moving_color, enemy_color, enemy_king_state, moves>>

NextInterpret == CallInterpretMove \/ CallInterpretMoveBelow \/ CallDoMove \/ CallUndoMove

SpecInterpret == InitInterpret /\ [][NextInterpret]_vars

----------------------------------------------------------------------------
\* interpret_move on squares named by their "{file}{rank}" labels

\* The labels of the 64 squares.
Coordinates == {<<FILES[i], RANKS[j]>> : i \in DOMAIN FILES, j \in DOMAIN RANKS}

\* A board with one pawn, on a square named by its label.
InitCoordinate ==
    /\ \E coord \in Coordinates, color \in Color :
            board = set(EmptyBoard, from_coordinate(coord), Piece(PAWN, color))
    /\ moving_color = NoGame
    /\ enemy_color = NoGame
    /\ enemy_king_state = NoGame
    /\ call = NoCall
    /\ ret = NoReturn
    /\ moves = 0

\* interpret_move(board, color, Position.from_coordinate(departure),
\* Position.from_coordinate(destination), promotion_to) for the pawn on the board.
CallInterpretMoveAt ==
    /\ call = NoCall
    /\ \E departure \in Coordinates :
        /\ get(board, from_coordinate(departure)) # None
        /\ \E color \in Color, destination \in Coordinates,
              promotion_to \in PromotionTarget \cup {NoTarget} :
                /\ call' = InterpretMoveCall(color, from_coordinate(departure),
                                             from_coordinate(destination), promotion_to)
                /\ ret' = interpret_move(board, color, from_coordinate(departure),
                                         from_coordinate(destination), promotion_to)
    /\ UNCHANGED <<board, moving_color, enemy_color, enemy_king_state, moves>>

NextCoordinate == CallInterpretMoveAt \/ CallDoMove

SpecCoordinate == InitCoordinate /\ [][NextCoordinate]_vars

----------------------------------------------------------------------------
\* interpret_move for the pieces that walk a path

\* Squares of the piece that walks: two opposite corners, and a home square of
\* the pawns of each colour.
PathDepartures == {Position(0, 0), Position(7, 7), Position(3, 1), Position(4, 6)}

\* The pieces whose case of interpret_move calls is_path_clear.
PathPieces == {Piece(typ, color) : typ \in {ROOK, BISHOP, QUEEN, PAWN}, color \in Color}

\* A board with one such piece, alone or with a rook on any other square.
InitPath ==
    /\ \E departure \in PathDepartures, piece \in PathPieces :
        \/ board = set(EmptyBoard, departure, piece)
        \/ \E other \in Positions \ {departure} :
            board = set(set(EmptyBoard, departure, piece), other, Piece(ROOK, WHITE))
    /\ moving_color = NoGame
    /\ enemy_color = NoGame
    /\ enemy_king_state = NoGame
    /\ call = NoCall
    /\ ret = NoReturn
    /\ moves = 0

\* interpret_move(board, color, departure, destination) from the square of the
\* walking piece to any square, for either colour.
CallInterpretMoveFrom ==
    /\ call = NoCall
    /\ \E departure \in {p \in PathDepartures : get(board, p) \in PathPieces} :
        \E color \in Color, destination \in Positions :
            /\ call' = InterpretMoveCall(color, departure, destination, NoTarget)
            /\ ret' = interpret_move(board, color, departure, destination, NoTarget)
    /\ UNCHANGED <<board, moving_color, enemy_color, enemy_king_state, moves>>

NextPath == CallInterpretMoveFrom

SpecPath == InitPath /\ [][NextPath]_vars

----------------------------------------------------------------------------
\* The king-safety functions called directly on a board, as the tests call them

\* A king and the square it stands on: on the rank where the enemy pawns
\* promote, in the middle, and in a corner.
LoneKings ==
    { <<WHITE, Position(3, 7)>>, <<WHITE, Position(4, 4)>>,
      <<BLACK, Position(3, 0)>>, <<BLACK, Position(0, 0)>> }

AdjacentOffsets == {d \in (-1 .. 1) \X (-1 .. 1) : d # <<0, 0>>}

\* A king `k` and one enemy piece of type `typ` on another square `at`.
AttackerBoard(k, typ, at) ==
    set(set(EmptyBoard, k[2], Piece(KING, k[1])), at, Piece(typ, opposite(k[1])))

\* The same with a pawn of the king's colour on the square `shield`.
ShieldedBoard(k, typ, at, shield) ==
    set(set(set(EmptyBoard, shield, Piece(PAWN, k[1])), k[2], Piece(KING, k[1])),
        at, Piece(typ, opposite(k[1])))

\* The checkmate fixtures of the tests with the white queen on any free square.
QueenBoards ==
    {set(set(b, Position(2, 2), None), at, Piece(QUEEN, WHITE)) :
        b \in {CheckmateBoard, SavedByAllyBoard},
        at \in {p \in Positions : get(CheckmateBoard, p) = None /\ get(SavedByAllyBoard, p) = None}
                  \cup {Position(2, 2)}}

InitKing ==
    /\ \/ \E k \in LoneKings, typ \in PieceType, at \in Positions :
            /\ at # k[2]
            /\ board = AttackerBoard(k, typ, at)
       \/ \E k \in LoneKings, typ \in PieceType, at \in Positions, d \in AdjacentOffsets :
            /\ at # k[2]
            /\ IsPosition(shift(k[2], d[1], d[2]))
            /\ board = ShieldedBoard(k, typ, at, shift(k[2], d[1], d[2]))
       \/ board \in QueenBoards
       \/ \E setup \in GameSetups : board = setup[1]
    /\ moving_color = NoGame
    /\ enemy_color = NoGame
    /\ enemy_king_state = NoGame
    /\ call = NoCall
    /\ ret = NoReturn
    /\ moves = 0

\* is_king_under_attack(board, color)
CallIsKingUnderAttack ==
    /\ call = NoCall
    /\ \E color \in Color :
        /\ call' = [op |-> "is_king_under_attack", board |-> board, color |-> color]
        /\ ret' = [result |-> is_king_under_attack(board, color)]
    /\ UNCHANGED <<board, moving_color, enemy_color, enemy_king_state, moves>>

\* deduce_king_state(board, next_moving_color); the board is left as the
\* trials of the call leave it.
CallDeduceKingState ==
    /\ call = NoCall
    /\ \E next_moving_color \in Color :
        LET run == deduce_king_state_run(board, next_moving_color)
        IN  /\ call' = [op |-> "deduce_king_state", board |-> board,
                        color |-> next_moving_color]
            /\ ret' = [result |-> run.state]
            /\ board' = run.board
    /\ UNCHANGED <<moving_color, enemy_color, enemy_king_state, moves>>

NextKing == CallIsKingUnderAttack \/ CallDeduceKingState

SpecKing == InitKing /\ [][NextKing]_vars

----------------------------------------------------------------------------
\* Properties of Game.make_move

\* The step is one make_move call (the caller held no result and now holds one).
IsMakeMoveStep == ret = NoReturn /\ ret' # NoReturn

\* What interpret_move answers for the call of this step, on the board and for
\* the mover as they are before the call.
Interpreted ==
    interpret_move(board, moving_color, call'.departure, call'.destination,
                   call'.promotion_to)

SameCells == \A p \in Positions : get(board', p) = get(board, p)

GameUnchanged ==
    /\ SameCells
    /\ moving_color' = moving_color
    /\ enemy_color' = enemy_color
    /\ enemy_king_state' = enemy_king_state

\* C1: when interpret_move rejects the candidate for the current moving colour,
\* make_move returns that reason and every board cell, moving_color, enemy_color
\* and enemy_king_state are as before the call.
C1_RejectedCallStep ==
    (IsMakeMoveStep /\ IsMoveError(Interpreted)) => (ret' = Interpreted /\ GameUnchanged)

C1_RejectionLeavesGame == [][C1_RejectedCallStep]_vars

\* A call that interpret_move rejected has returned (the game being unchanged,
\* the rejection can be recomputed from the state).
C1_Witness ==
    /\ call.op = "make_move"
    /\ IsMoveError(ret)
    /\ ret = interpret_move(board, moving_color, call.departure, call.destination,
                            call.promotion_to)

\* C2: when the candidate is a Move but leaves the mover's own king attacked once
\* applied, make_move returns the self-check rejection and the board is restored
\* cell for cell, with moving_color, enemy_color and enemy_king_state unchanged.
C2_SelfCheckStep ==
    (/\ IsMakeMoveStep
     /\ IsMove(Interpreted)
     /\ is_king_under_attack(do_move(Interpreted, board), moving_color))
        => (ret' = SelfCheckError /\ GameUnchanged)

C2_SelfCheckIsUndone == [][C2_SelfCheckStep]_vars

\* A capture that would also promote was refused for self-check.
C2_Witness ==
    /\ call.op = "make_move"
    /\ ret = SelfCheckError
    /\ LET move == interpret_move(board, moving_color, call.departure, call.destination,
                                  call.promotion_to)
       IN  /\ IsMove(move)
           /\ move.captured_piece # None
           /\ move.promotion_to # None

\* C3: after a make_move call that returned a Move, is_king_under_attack(board,
\* colour that just moved) is false.
C3_NoSelfCheck ==
    IsMove(ret) => ~is_king_under_attack(board, ret.moving_piece.color)

\* A king move was committed with an enemy piece on the board.
C3_Witness ==
    /\ IsMove(ret)
    /\ ret.moving_piece.typ = KING
    /\ \E p \in Positions :
          get(board, p) # None /\ get(board, p).color # ret.moving_piece.color

\* Some move of `color`, made with one of the promotion targets `targets`, is a
\* Move after which the king of `color` is not attacked.
has_escaping_move(b, color, targets) ==
    \E departure \in Positions, destination \in Positions, promotion_to \in targets :
        /\ get(b, departure) # None
        /\ get(b, departure).color = color
        /\ LET move == interpret_move(b, color, departure, destination, promotion_to)
           IN  IsMove(move) /\ ~is_king_under_attack(do_move(move, b), color)

\* C4: whenever a committed make_move leaves the side now to move with its king
\* attacked, enemy_king_state read right after the call is CHECK if that side
\* has an escaping move and CHECKMATE if it has none.
C4_CheckIsSignalled ==
    (IsMove(ret) /\ is_king_under_attack(board, moving_color))
        => enemy_king_state =
              (IF has_escaping_move(board, moving_color, PromotionTarget \cup {NoTarget})
               THEN CHECK ELSE CHECKMATE)

\* C5: enemy_color is always the opposite of moving_color; a committed make_move
\* moves a piece of moving_color and flips moving_color, a rejected one leaves it.
C5_TurnStep ==
    IsMakeMoveStep =>
        IF IsMove(ret')
        THEN /\ ret'.moving_piece.color = moving_color
             /\ moving_color' = opposite(moving_color)
        ELSE moving_color' = moving_color

C5_TurnOrder ==
    /\ [](moving_color \in Color /\ enemy_color = opposite(moving_color))
    /\ [][C5_TurnStep]_vars

\* Two moves were committed one after the other; the second moved a piece of
\* the colour that is now the enemy.
C5_Witness ==
    /\ moves = 2
    /\ IsMove(ret)
    /\ ret.moving_piece.color = enemy_color

\* C6: after construction and after every make_move call, enemy_king_state
\* equals deduce_king_state(board, enemy_color) on the current board.
C6_CachedStateIsCurrent ==
    enemy_king_state = deduce_king_state(board, enemy_color)

\* A make_move call has returned while the cached state is not SAFE.
C6_Witness ==
    /\ call.op = "make_move"
    /\ enemy_king_state # SAFE

----------------------------------------------------------------------------
\* Properties of interpret_move, do_move and undo_move

\* C7: for every Move returned by interpret_move on a board, do_move followed
\* immediately by undo_move leaves all 64 cells equal to their values before
\* do_move.
C7_UndoInvertsDo ==
    call.op = "undo_move" => \A p \in Positions : get(board, p) = get(call.expected, p)

\* A capture that promotes has been applied and taken back.
C7_Witness ==
    /\ call.op = "undo_move"
    /\ call.move.captured_piece # None
    /\ call.move.promotion_to # None

\* C8: interpret_move never returns a Move whose destination holds a piece of
\* the moving colour: the captured_piece of a returned Move is absent or of the
\* opposite colour.
C8_NoAlliedCapture ==
    (call.op = "interpret_move" /\ IsMove(ret)) =>
        /\ ret.captured_piece = get(board, ret.destination)
        /\ ret.captured_piece = None \/ ret.captured_piece.color = opposite(call.color)

----------------------------------------------------------------------------
\* Properties of is_king_under_attack and deduce_king_state

\* The squares strictly between two squares of one rank, file or diagonal.
between(from, to) ==
    {p \in Positions :
        \E n \in 1 .. (BOARD_SIDE_LEN - 1) :
            /\ n < abs(to.x - from.x) \/ n < abs(to.y - from.y)
            /\ p.x = from.x + n * (IF to.x > from.x THEN 1 ELSE IF to.x < from.x THEN -1 ELSE 0)
            /\ p.y = from.y + n * (IF to.y > from.y THEN 1 ELSE IF to.y < from.y THEN -1 ELSE 0)}

\* The chess capture rules: the piece on `from` could capture on `to`.
could_capture(b, from, to) ==
    LET typ == get(b, from).typ
        dx == abs(to.x - from.x)
        dy == abs(to.y - from.y)
        straight == (dx = 0) # (dy = 0)
        diagonal == dx = dy /\ dx # 0
        clear == \A p \in between(from, to) : get(b, p) = None
    IN  CASE typ = KING -> dx <= 1 /\ dy <= 1 /\ dx + dy > 0
          [] typ = KNIGHT -> {dx, dy} = {1, 2}
          [] typ = ROOK -> straight /\ clear
          [] typ = BISHOP -> diagonal /\ clear
          [] typ = QUEEN -> (straight \/ diagonal) /\ clear
          [] typ = PAWN ->
                dx = 1 /\ to.y - from.y = (IF get(b, from).color = BLACK THEN 1 ELSE -1)

kings_of(b, color) == {p \in Positions : get(b, p) = Piece(KING, color)}

\* C9: on a board holding exactly one king of the given colour,
\* is_king_under_attack(board, colour) is true iff some piece of the opposite
\* colour could capture on the king's square by the chess capture rules, on
\* every rank, the pawn's promotion rank included.
C9_AttackMatchesCaptureRules ==
    (call.op = "is_king_under_attack" /\ Cardinality(kings_of(call.board, call.color)) = 1) =>
        ret.result =
            \E king \in kings_of(call.board, call.color), from \in Positions :
                /\ get(call.board, from) # None
                /\ get(call.board, from).color = opposite(call.color)
                /\ could_capture(call.board, from, king)

\* C10: deduce_king_state(board, colour) is SAFE iff the king is not attacked,
\* CHECK iff it is attacked and some (own piece, destination) pair interpreted
\* without a promotion target is a Move after which the king is not attacked,
\* and CHECKMATE iff it is attacked and no such pair exists, whatever the order
\* of the candidates.
C10_Classification ==
    call.op = "deduce_king_state" =>
        ret.result =
            IF ~is_king_under_attack(call.board, call.color) THEN SAFE
            ELSE IF has_escaping_move(call.board, call.color, {NoTarget}) THEN CHECK
            ELSE CHECKMATE

\* A checkmate has been found on a board where the mated side has a piece
\* besides its king.
C10_Witness ==
    /\ call.op = "deduce_king_state"
    /\ ret.result = CHECKMATE
    /\ \E p \in Positions :
        get(call.board, p) # None /\ get(call.board, p) # Piece(KING, call.color)
                                  /\ get(call.board, p).color = call.color

\* C11: deduce_king_state(board, colour) returns CHECKMATE only when the king
\* is attacked and no move that make_move would accept for that colour, a pawn
\* move onto the last rank with any promotion target included, leaves the king
\* unattacked.
C11_CheckmateMeansNoEscape ==
    (call.op = "deduce_king_state" /\ ret.result = CHECKMATE) =>
        /\ is_king_under_attack(call.board, call.color)
        /\ ~has_escaping_move(call.board, call.color, PromotionTarget \cup {NoTarget})

\* C12: a call of interpret_move, whether it returns a Move or a rejection
\* reason, leaves all 64 cells of the board as they were.
C12_InterpretMoveIsPure ==
    [][call'.op = "interpret_move" => board' = board]_vars

\* interpret_move has returned a Move that takes the mover's king from an
\* unattacked square to an attacked one: no king-safety check is made.
C12_Witness ==
    /\ call.op = "interpret_move"
    /\ IsMove(ret)
    /\ ret.moving_piece.typ = KING
    /\ ~is_king_under_attack(board, call.color)
    /\ is_king_under_attack(do_move(ret, board), call.color)

\* The call held in `call` is interpret_move for the piece of the moving colour
\* standing on the departure.
own_piece_call ==
    /\ call.op = "interpret_move"
    /\ call.departure # call.destination
    /\ get(board, call.departure) # None
    /\ get(board, call.departure).color = call.color

\* The geometry of the pieces other than the pawn, by the rules of chess.
piece_geometry(b, typ, from, to) ==
    LET dx == abs(to.x - from.x)
        dy == abs(to.y - from.y)
        clear == \A p \in between(from, to) : get(b, p) = None
    IN  CASE typ = KING -> dx <= 1 /\ dy <= 1
          [] typ = KNIGHT -> <<dx, dy>> \in {<<1, 2>>, <<2, 1>>}
          [] typ = ROOK -> (dx = 0 \/ dy = 0) /\ clear
          [] typ = BISHOP -> dx = dy /\ clear
          [] typ = QUEEN -> (dx = 0 \/ dy = 0 \/ dx = dy) /\ clear

\* C13: for a King, Rook, Bishop, Knight or Queen of the moving colour, with no
\* promotion target, departure different from destination and destination not
\* holding an own piece, interpret_move returns a Move iff the geometry of the
\* piece allows the move, with every square strictly between empty for Rook,
\* Bishop and Queen; a queen move is accepted exactly when it would be accepted
\* for a rook or for a bishop standing in its place.
C13_PieceGeometry ==
    (/\ own_piece_call
     /\ get(board, call.departure).typ # PAWN
     /\ call.promotion_to = NoTarget
     /\ ~(get(board, call.destination) # None
            /\ get(board, call.destination).color = call.color)) =>
        /\ IsMove(ret) =
              piece_geometry(board, get(board, call.departure).typ,
                             call.departure, call.destination)
        /\ get(board, call.departure).typ = QUEEN =>
              IsMove(ret) =
                 \E typ \in {ROOK, BISHOP} :
                    IsMove(interpret_move(set(board, call.departure, Piece(typ, call.color)),
                                          call.color, call.departure, call.destination,
                                          NoTarget))

\* A queen was refused a move along a line because a piece stands in between.
C13_Witness ==
    /\ own_piece_call
    /\ get(board, call.departure).typ = QUEEN
    /\ call.promotion_to = NoTarget
    /\ get(board, call.destination) = None
    /\ \E p \in between(call.departure, call.destination) : get(board, p) # None
    /\ abs(call.destination.x - call.departure.x) = abs(call.destination.y - call.departure.y)
    /\ IsMoveError(ret)

\* C14: a pawn move on its own file, without a promotion target and not ending
\* on the last rank, is accepted iff the destination is empty and either it is
\* one step forward, or it is two steps forward from the home rank of the
\* colour (y = 1 for Black, y = 6 for White) over an empty square.
C14_PawnStraightMoves ==
    (/\ own_piece_call
     /\ get(board, call.departure).typ = PAWN
     /\ call.promotion_to = NoTarget
     /\ call.destination.x = call.departure.x
     /\ call.destination.y # (IF call.color = BLACK THEN 7 ELSE 0)) =>
        LET fwd == IF call.color = BLACK THEN 1 ELSE -1
            dy == call.destination.y - call.departure.y
            home == IF call.color = BLACK THEN 1 ELSE 6
        IN  IsMove(ret) =
              /\ get(board, call.destination) = None
              /\ \/ dy = fwd
                 \/ /\ dy = 2 * fwd
                    /\ call.departure.y = home
                    /\ get(board, Position(call.departure.x, call.departure.y + fwd)) = None

\* A pawn off its home rank was refused a move of two steps forward over empty
\* squares.
C14_Witness ==
    /\ own_piece_call
    /\ get(board, call.departure).typ = PAWN
    /\ call.promotion_to = NoTarget
    /\ call.destination.x = call.departure.x
    /\ call.destination.y - call.departure.y = 2 * (IF call.color = BLACK THEN 1 ELSE -1)
    /\ call.departure.y # (IF call.color = BLACK THEN 1 ELSE 6)
    /\ get(board, call.destination) = None
    /\ \A p \in between(call.departure, call.destination) : get(board, p) = None
    /\ IsMoveError(ret)

\* C15: a pawn's move with |dx| = 1 and dy = forward is rejected when the
\* destination is empty and accepted when the destination holds an enemy
\* piece, a promotion target being supplied exactly when the destination is on
\* the last rank; every other pawn move with dx # 0 is rejected.
C15_PawnDiagonalMoves ==
    (own_piece_call /\ get(board, call.departure).typ = PAWN
                    /\ call.destination.x # call.departure.x) =>
        LET fwd == IF call.color = BLACK THEN 1 ELSE -1
            last == IF call.color = BLACK THEN 7 ELSE 0
            target == get(board, call.destination)
            one_step == /\ abs(call.destination.x - call.departure.x) = 1
                        /\ call.destination.y - call.departure.y = fwd
        IN  /\ ~one_step => IsMoveError(ret)
            /\ (one_step /\ target = None) => IsMoveError(ret)
            /\ (one_step /\ target # None /\ target.color = opposite(call.color)
                  /\ (call.promotion_to # NoTarget) = (call.destination.y = last))
                  => IsMove(ret)

\* A pawn has captured an enemy piece one step diagonally forward.
C15_Witness ==
    /\ own_piece_call
    /\ IsMove(ret)
    /\ ret.moving_piece.typ = PAWN
    /\ ret.captured_piece # None
    /\ ret.captured_piece.color = opposite(call.color)
    /\ ret.promotion_to = None

\* The call held in `call` is interpret_move for a pawn move that the pawn rules
\* allow and that ends on the last rank: one step forward onto an empty square
\* or one step diagonally forward onto an enemy piece.
promoting_pawn_call ==
    /\ own_piece_call
    /\ get(board, call.departure).typ = PAWN
    /\ call.destination.y = (IF call.color = BLACK THEN 7 ELSE 0)
    /\ call.destination.y - call.departure.y = (IF call.color = BLACK THEN 1 ELSE -1)
    /\ \/ /\ call.destination.x = call.departure.x
          /\ get(board, call.destination) = None
       \/ /\ abs(call.destination.x - call.departure.x) = 1
          /\ get(board, call.destination) # None
          /\ get(board, call.destination).color = opposite(call.color)

\* C16: for a pawn move that is otherwise legal and ends on the last rank,
\* interpret_move without a promotion target is rejected and with target T
\* returns a Move whose promotion_to is Piece(T, moving colour); do_move of that
\* Move leaves Piece(T, moving colour) on the destination and the departure
\* empty.
C16_MandatoryPromotion ==
    /\ promoting_pawn_call =>
          IF call.promotion_to = NoTarget
          THEN ret = MoveError("pawn has to be promoted to something")
          ELSE IsMove(ret) /\ ret.promotion_to = Piece(call.promotion_to, call.color)
    /\ (call.op = "do_move" /\ call.move.promotion_to # None) =>
          /\ call.move.promotion_to.typ \in PromotionTarget
          /\ call.move.promotion_to.color = call.move.moving_piece.color
          /\ get(board, call.move.destination) = call.move.promotion_to
          /\ get(board, call.move.departure) = None

\* A pawn has been promoted on an empty square of the last rank.
C16_Witness ==
    /\ call.op = "do_move"
    /\ call.move.moving_piece.typ = PAWN
    /\ call.move.promotion_to # None
    /\ call.move.captured_piece = None
    /\ get(board, call.move.destination) = call.move.promotion_to

\* C17: when a promotion target is supplied, interpret_move returns a Move only
\* if the moving piece is a pawn and the destination is on the last rank for
\* its colour; no returned Move has promotion_to set otherwise.
C17_PromotionOnlyOnLastRank ==
    (call.op = "interpret_move" /\ IsMove(ret)
        /\ (call.promotion_to # NoTarget \/ ret.promotion_to # None)) =>
        /\ get(board, call.departure).typ = PAWN
        /\ ret.moving_piece.typ = PAWN
        /\ call.destination.y = (IF call.color = BLACK THEN 7 ELSE 0)
        /\ call.promotion_to # NoTarget
        /\ ret.promotion_to = Piece(call.promotion_to, call.color)

\* A promotion target was refused for a move of a piece other than a pawn that
\* is accepted without it, and for a pawn move that does not end on the last
\* rank.
C17_Witness ==
    /\ call.op = "interpret_move"
    /\ call.promotion_to # NoTarget
    /\ ret \in {MoveError("only pawn can be promoted"), MoveError("pawn can't be promoted here")}
    /\ IsMove(interpret_move(board, call.color, call.departure, call.destination, NoTarget))

\* The board whose only piece is a Black pawn on the square labelled `coord`.
lone_black_pawn(coord) == set(EmptyBoard, from_coordinate(coord), Piece(PAWN, BLACK))

\* The promotion fixture for a lone Black pawn moving from the square labelled
\* `from` to the square labelled `to`: without a promotion target the move is
\* rejected with the must-promote reason, with target Queen a Move is returned
\* whose application puts a Black Queen on `to` and empties `from`.
promotion_fixture(from, to) ==
    /\ (board = lone_black_pawn(from)
          /\ call = InterpretMoveCall(BLACK, from_coordinate(from), from_coordinate(to), NoTarget))
          => ret = MoveError("pawn has to be promoted to something")
    /\ (board = lone_black_pawn(from)
          /\ call = InterpretMoveCall(BLACK, from_coordinate(from), from_coordinate(to), QUEEN))
          => IsMove(ret)
    /\ (call.op = "do_move" /\ call.expected = lone_black_pawn(from)
          /\ call.move.destination = from_coordinate(to)
          /\ call.move.promotion_to = Piece(QUEEN, BLACK))
          => board = set(EmptyBoard, from_coordinate(to), Piece(QUEEN, BLACK))

\* C18 as stated: the fixture holds for a lone Black pawn on e7 moving to e8.
C18_BlackPawnE7ToE8 == promotion_fixture(<<"e", "7">>, <<"e", "8">>)

\* C18, amended: the fixture holds for a lone Black pawn on e2 moving to e1
\* (Position(4, 6) to Position(4, 7)).
C18_BlackPawnE2ToE1 == promotion_fixture(<<"e", "2">>, <<"e", "1">>)

\* The Black pawn on e2 has been promoted to a Queen on e1.
C18_Witness ==
    /\ call.op = "do_move"
    /\ call.expected = lone_black_pawn(<<"e", "2">>)
    /\ call.move.promotion_to = Piece(QUEEN, BLACK)
    /\ get(board, from_coordinate(<<"e", "1">>)) = Piece(QUEEN, BLACK)
    /\ get(board, from_coordinate(<<"e", "2">>)) = None

\* C19: whenever a move passes the geometric checks of its piece and its
\* destination holds a piece of the moving colour, interpret_move returns the
\* allied-capture rejection, whether or not a promotion target is supplied and
\* whatever the rank of the destination.
C19_AlliedCaptureFirst ==
    (/\ own_piece_call
     /\ get(board, call.destination) # None
     /\ get(board, call.destination).color = call.color
     /\ IF get(board, call.departure).typ = PAWN
        THEN /\ abs(call.destination.x - call.departure.x) = 1
             /\ call.destination.y - call.departure.y = (IF call.color = BLACK THEN 1 ELSE -1)
        ELSE piece_geometry(board, get(board, call.departure).typ,
                            call.departure, call.destination)) =>
        ret = MoveError("it's not alowed to capture allied piece")

\* The reasons of the three checks made before the match on the piece type.
first_reasons ==
    { MoveError("destination is the same as departure"),
      MoveError("departure have no piece"),
      MoveError("can't move enemy piece") }

\* C20: departure = destination gives the same-square reason even when that
\* square is empty or holds an enemy piece; otherwise an empty departure gives
\* the empty-departure reason; otherwise a departure piece of the other colour
\* gives the enemy-piece reason; none of the three reasons is returned once a
\* check of the piece's geometry has been reached.
C20_FirstChecksInOrder ==
    call.op = "interpret_move" =>
        IF call.departure = call.destination
        THEN ret = MoveError("destination is the same as departure")
        ELSE IF get(board, call.departure) = None
        THEN ret = MoveError("departure have no piece")
        ELSE IF get(board, call.departure).color # call.color
        THEN ret = MoveError("can't move enemy piece")
        ELSE ret \notin first_reasons

\* The same-square reason was returned for an empty square.
C20_Witness ==
    /\ call.op = "interpret_move"
    /\ call.departure = call.destination
    /\ get(board, call.departure) = None
    /\ ret = MoveError("destination is the same as departure")

----------------------------------------------------------------------------
\* Properties of Game.parse_move_notation

\* The squares that a notation with the groups `match` can mean: they hold a
\* piece of the named type (pawn when omitted) and of the moving colour, pass
\* the file and rank filters, and interpret_move from them to the destination
\* returns a Move.
candidates(b, color, match) ==
    LET T == IF match.piece = <<>> THEN PAWN ELSE from_char(match.piece[1])
        target == IF match.promotion_to = <<>> THEN NoTarget
                  ELSE from_char(match.promotion_to[1])
    IN  {p \in Positions :
            /\ get(b, p) = Piece(T, color)
            /\ match.departure_file # <<>> => FILES[p.x + 1] = match.departure_file[1]
            /\ match.departure_rank # <<>> => RANKS[p.y + 1] = match.departure_rank[1]
            /\ IsMove(interpret_move(b, color, p, from_coordinate(match.destination), target))}

\* The answer of parse_move_notation is one / none / many.
resolution ==
    (call.op = "parse_move_notation" /\ fullmatch(lower(call.notation)) # NoMatch) =>
        LET match == fullmatch(lower(call.notation))
            C == candidates(board, moving_color, match)
            target == IF match.promotion_to = <<>> THEN NoTarget
                      ELSE from_char(match.promotion_to[1])
        IN  /\ IsMove(ret) <=> Cardinality(C) = 1
            /\ IsMove(ret) =>
                  \E p \in C : ret = interpret_move(board, moving_color, p,
                                                    from_coordinate(match.destination), target)
            /\ ret = MoveError("invalid move") <=> C = {}
            /\ ret = MoveError("ambiguous move notation") <=> Cardinality(C) >= 2

\* From the starting position 'Nf3' is the knight on g1 moving to f3.
knight_fixture ==
    (call.op = "parse_move_notation" /\ call.notation = <<"N", "f", "3">>
        /\ board = initialy_filled /\ moving_color = WHITE) =>
        ret = Move(from_coordinate(<<"g", "1">>), from_coordinate(<<"f", "3">>),
                   Piece(KNIGHT, WHITE), None, None)

\* C21: for a well-formed notation parse_move_notation returns the Move of the
\* one candidate square, the no-move rejection when there is none and the
\* ambiguity rejection when there are two or more; it changes neither the
\* board nor the turn; from the starting position 'Nf3' resolves to the knight
\* on g1 moving to f3.
C21_NotationResolution ==
    /\ [](resolution /\ knight_fixture)
    /\ [][call'.op = "parse_move_notation" =>
            UNCHANGED <<board, moving_color, enemy_color, enemy_king_state>>]_vars

\* A notation that two knights can both play was rejected as ambiguous.
C21_Witness ==
    /\ call.op = "parse_move_notation"
    /\ ret = MoveError("ambiguous move notation")
    /\ fullmatch(lower(call.notation)).piece = <<"n">>

----------------------------------------------------------------------------
\* Properties of boards without a king

has_king(b, color) == \E p \in Positions : get(b, p) = Piece(KING, color)

\* C22: if the board holds no king of a colour, is_king_under_attack(board,
\* colour) is false, deduce_king_state(board, colour) is SAFE (also as cached
\* by the Game), and make_move never rejects a move of that colour for
\* self-check.
C22_NoKingIsSafe ==
    /\ \A color \in Color :
          has_king(board, color)
              \/ /\ ~is_king_under_attack(board, color)
                 /\ deduce_king_state(board, color) = SAFE
    /\ has_king(board, enemy_color) \/ enemy_king_state = SAFE
    /\ ret = SelfCheckError => has_king(board, moving_color)

\* A side without a king has made a move.
C22_Witness ==
    /\ IsMove(ret)
    /\ ~has_king(board, ret.moving_piece.color)
    /\ has_king(board, opposite(ret.moving_piece.color))

----------------------------------------------------------------------------
\* Properties of Position

\* C23: in both packages Position(x, y) succeeds iff 0 <= x < 8 and
\* 0 <= y < 8, and then rebuilding a Position from its x and y gives an equal
\* Position; outside that range construction fails with an error and yields no
\* clamped or wrapped position; shift(dx, dy) fails likewise when the shifted
\* square leaves the grid.
C23_PositionIsBoundsChecked ==
    LET inside(x, y) == 0 <= x /\ x < 8 /\ 0 <= y /\ y < 8
    IN  /\ call.op \in {"Position", "chesspy.Position"} =>
              IF inside(call.x, call.y)
              THEN ret = [x |-> call.x, y |-> call.y]
              ELSE IsMoveError(ret) /\ ret.error = "ValueError"
        /\ call.op = "rebuild" => ret = call.self
        /\ call.op = "shift" =>
              IF inside(call.self.x + call.dx, call.self.y + call.dy)
              THEN ret = [x |-> call.self.x + call.dx, y |-> call.self.y + call.dy]
              ELSE IsMoveError(ret) /\ ret.error = "ValueError"

\* A shift that leaves the grid by one square has failed.
C23_Witness ==
    /\ call.op = "shift"
    /\ call.self.x + call.dx = 8
    /\ ~IsPosition(ret)

\* C27: direction_to fails its assertion when the vector to the destination is
\* neither straight nor diagonal, and returns the unit step (sign of dx, sign
\* of dy) when it is straight or diagonal.
C27_DirectionToAsserts ==
    call.op = "direction_to" =>
        LET dx == call.destination.x - call.self.x
            dy == call.destination.y - call.self.y
            sign(d) == IF d > 0 THEN 1 ELSE IF d < 0 THEN -1 ELSE 0
        IN  IF dx # 0 /\ dy # 0 /\ abs(dx) # abs(dy)
            THEN ret = [error |-> "AssertionError"]
            ELSE ret = [dx |-> sign(dx), dy |-> sign(dy)]

----------------------------------------------------------------------------
\* Properties of the board text

\* The text has exactly the glyphs of 64 cells.
well_formed(unicode) ==
    /\ Len(split_join(unicode)) = 64
    /\ \A k \in 1 .. 64 : split_join(unicode)[k] \in DOMAIN unicode_to_piece

\* C24: Board.to_unicode of kingdom_chess writes one glyph per cell, row-major
\* from row y = 0, and Board.from_unicode reads the glyphs in the same order:
\* reading the text of a board gives an equal board, and writing the board read
\* from a well-formed text gives the glyph sequence of that text.
C24_UnicodeRoundTrip ==
    /\ call.op = "to_unicode" =>
          /\ Len(split_join(ret.result)) = 64
          /\ \A k \in 0 .. 63 :
                split_join(ret.result)[k + 1]
                    = piece_to_unicode(get(call.self, [x |-> k % 8, y |-> k \div 8]))
    /\ call.op = "from_unicode" =>
          /\ well_formed(call.unicode) <=> ~IsMoveError(ret)
          /\ ~IsMoveError(ret) =>
                /\ \A k \in 0 .. 63 :
                      get(ret.result, [x |-> k % 8, y |-> k \div 8])
                          = unicode_to_piece[split_join(call.unicode)[k + 1]]
                /\ split_join(to_unicode(ret.result)) = split_join(call.unicode)
          /\ call.unicode = to_unicode(board) => ret = [result |-> board]

\* A board with a piece off the diagonal has been written and read again.
C24_Witness ==
    /\ call.op = "from_unicode"
    /\ call.unicode = to_unicode(board)
    /\ ~IsMoveError(ret)
    /\ get(board, [x |-> 1, y |-> 0]) = Piece(QUEEN, BLACK)
    /\ get(board, [x |-> 0, y |-> 1]) = None

\* C25: Board.from_unicode of chesspy puts the k-th glyph of the text on
\* Position(k mod 8, k div 8), the order in which Board.__str__ writes the
\* cells, so reading str(b) gives a board equal to b.
C25_ChesspyRowMajor ==
    call.op = "chesspy.from_unicode" /\ ~IsMoveError(ret) =>
        /\ \A k \in 0 .. 63 :
              get(ret.result, [x |-> k % 8, y |-> k \div 8])
                  = unicode_to_piece[split_join(call.unicode)[k + 1]]
        /\ call.unicode = chesspy_str(board) => ret.result = board

----------------------------------------------------------------------------
\* Properties of deduce_king_state

\* The candidates of the call that are Moves: the ones the loop tries.
tried_moves ==
    {m \in {interpret_move(call.board, call.color, departure, destination, NoTarget) :
                departure \in {p \in Positions : get(call.board, p).color = call.color},
                destination \in Positions} : IsMove(m)}

\* C26: deduce_king_state returns with every cell of the board as it was before
\* the call, whether it returns SAFE, CHECK or CHECKMATE, and every candidate
\* that is tried is taken back before the next one is interpreted, so each
\* candidate is interpreted against the position of the call.
C26_DeduceKingStateRestoresBoard ==
    call.op = "deduce_king_state" =>
        /\ ret.result \in KingState
        /\ board = call.board
        /\ \A m \in tried_moves : undo_move(m, do_move(m, call.board)) = call.board

\* The call returned CHECK early, after it had tried and taken back a capture.
C26_Witness ==
    /\ call.op = "deduce_king_state"
    /\ ret.result = CHECK
    /\ \E m \in tried_moves :
          /\ m.captured_piece # None
          /\ ~is_king_under_attack(do_move(m, call.board), call.color)

----------------------------------------------------------------------------
\* Play from the boards with one king of each colour

\* Some piece of the other colour could capture on the square of a king of the
\* given colour, by the chess capture rules.
king_attacked(b, color) ==
    \E king \in kings_of(b, color), from \in Positions :
        /\ get(b, from) # None
        /\ get(b, from).color = opposite(color)
        /\ could_capture(b, from, king)

\* Game(board, moving_color) on the boards of the longer play that hold exactly
\* one king of each colour, the king of the side not to move not attacked.
InitTwoKings ==
    /\ \E setup \in LongPlaySetups :
        /\ \A color \in Color : Cardinality(kings_of(setup[1], color)) = 1
        /\ ~king_attacked(setup[1], opposite(setup[2]))
        /\ GameInit(setup[1], setup[2])
    /\ call = NoCall
    /\ ret = NoReturn
    /\ moves = 0

SpecTwoKings == InitTwoKings /\ [][NextPlay]_vars

\* C28: from a Game with exactly one king of each colour, the king of the side
\* not to move not attacked, every sequence of make_move calls leaves exactly
\* one king of each colour on the board, and no committed Move has a king as its
\* captured_piece.
C28_KingsAreNeverCaptured ==
    /\ \A color \in Color : Cardinality(kings_of(board, color)) = 1
    /\ IsMove(ret) => ret.captured_piece.typ # KING

----------------------------------------------------------------------------
\* Properties of is_path_clear

\* interpret_move reaches one of its calls of is_path_clear: the first checks
\* pass and the piece is a rook, a bishop or a queen whose move is not rejected
\* as invalid, or a pawn making its double move.
reaches_is_path_clear(b, color, departure, destination) ==
    LET typ == get(b, departure).typ
        dx == destination.x - departure.x
        dy == destination.y - departure.y
    IN  /\ ~IsMoveError(first_checks(b, color, departure, destination))
        /\ \/ typ = ROOK /\ ~(dx # 0 /\ dy # 0)
           \/ typ = BISHOP /\ ~(abs(dx) # abs(dy))
           \/ typ = QUEEN /\ ~(abs(dx) # abs(dy) /\ dx # 0 /\ dy # 0)
           \/ /\ typ = PAWN
              /\ ~(abs(dx) = 1 /\ dy = forward_of(color))
              /\ dx = 0
              /\ first_move(color, departure) /\ dy = 2 * forward_of(color)

\* C29: every call of is_path_clear made by interpret_move has a departure and
\* a destination that differ and lie on a common rank, file or diagonal; the
\* walk visits only squares strictly between the two, at most 6 of them, and
\* ends clear or blocked, never outside the board and never on a failed
\* assertion.
C29_ObstructionWalkIsWellDefined ==
    (/\ call.op = "interpret_move"
     /\ reaches_is_path_clear(board, call.color, call.departure, call.destination)) =>
        LET dx == call.destination.x - call.departure.x
            dy == call.destination.y - call.departure.y
            d == direction_to(call.departure, call.destination)
            visited == path_visited(board, shift(call.departure, d.dx, d.dy),
                                    call.destination, d.dx, d.dy)
        IN  /\ call.departure # call.destination
            /\ dx = 0 \/ dy = 0 \/ abs(dx) = abs(dy)
            /\ is_path_clear_run(board, call.departure, call.destination)
                  \in {"clear", "blocked"}
            /\ Len(visited) <= 6
            /\ \A k \in 1 .. Len(visited) :
                  visited[k] \in between(call.departure, call.destination)
            /\ IsMoveError(ret) => ret.error \notin {"ValueError", "AssertionError"}

\* A piece has been interpreted from one corner of the board to the opposite
\* one, over the six empty squares between.
C29_Witness ==
    /\ call.op = "interpret_move"
    /\ reaches_is_path_clear(board, call.color, call.departure, call.destination)
    /\ call.destination.y - call.departure.y = 7
    /\ call.destination.x - call.departure.x = 7
    /\ IsMove(ret)

----------------------------------------------------------------------------
\* Frame of a committed make_move

\* The number of pieces on a board.
piece_count(b) == Cardinality({p \in Positions : get(b, p) # None})

C30_CommitStep ==
    (IsMakeMoveStep /\ IsMove(ret')) =>
        /\ get(board, ret'.departure) = ret'.moving_piece
        /\ get(board', ret'.departure) = None
        /\ get(board', ret'.destination) =
              (IF ret'.promotion_to # None THEN ret'.promotion_to ELSE ret'.moving_piece)
        /\ \A p \in Positions \ {ret'.departure, ret'.destination} :
              get(board', p) = get(board, p)
        /\ piece_count(board') <= piece_count(board)
        /\ piece_count(board') =
              (IF ret'.captured_piece # None
               THEN piece_count(board) - 1 ELSE piece_count(board))

\* C30: a committed make_move empties the departure and puts the moved piece, or
\* its promotion, on the destination; the other 62 cells are unchanged, so the
\* number of pieces never increases: it drops by exactly one when the Move has a
\* captured piece and stays the same otherwise.
C30_CommitChangesTwoCells == [][C30_CommitStep]_vars

\* A capture has been committed.
C30_Witness ==
    /\ call.op = "make_move"
    /\ IsMove(ret)
    /\ ret.captured_piece # None
    /\ get(board, ret.departure) = None
    /\ get(board, ret.destination) = ret.moving_piece

====
